---- MODULE Spec2Model ----
(***************************************************************************)
(* ModelManager of langcheck.metrics.model_manager._model_management:      *)
(* the per-(language, metric) configuration store, its validator, the      *)
(* lru_cache in front of fetch_model and the validate-then-rollback setter.*)
(***************************************************************************)
EXTENDS Integers, Sequences, FiniteSets, TLC

(* ------------------------------------------------------------------ *)
(* Python values                                                      *)
(* ------------------------------------------------------------------ *)

\* Python's None, as an attribute value or a default.
None == "None"

\* Exceptions a call can end with; NoExc is a normal return.
NoExc == "return"
KeyError == "KeyError"
ValueError == "ValueError"
\* requests.get failing to connect or timing out: a RequestException, which is
\* an IOError and neither a ValueError nor a KeyError.
RequestException == "RequestException"

\* Truth value of an optional string: None and "" are falsy.
Truthy(x) == x # None /\ x # ""

EmptyDict == <<>>

\* d[k] = v on a dictionary.
DictSet(d, k, v) == [x \in (DOMAIN d) \cup {k} |-> IF x = k THEN v ELSE d[x]]

\* d.pop(k, default) / d.get(k, default): the value read.
DictGet(d, k, default) == IF k \in DOMAIN d THEN d[k] ELSE default

\* d.pop(k): the dictionary left.
DictPop(d, k) == [x \in (DOMAIN d) \ {k} |-> d[x]]

(* ------------------------------------------------------------------ *)
(* Module constants                                                   *)
(* ------------------------------------------------------------------ *)

LOADER_MAP ==
    {"load_sentence_transformers",
     "load_auto_model_for_text_classification",
     "load_auto_model_for_seq2seq"}

VALID_LOADER_FUNCTION == LOADER_MAP

VALID_METRICS ==
    {"semantic_similarity", "sentiment", "toxicity", "factual_consistency"}

VALID_LANGUAGE == {"zh"}

(* ------------------------------------------------------------------ *)
(* Inputs of the calls                                                *)
(* ------------------------------------------------------------------ *)

\* Cap on the number of loader invocations of one run.
MaxLoads == 3

\* Arguments of the calls: one supported language and metric ("zh",
\* "toxicity"), one unsupported of each ("en", "fluency"), two models, one
\* registered loader and one unregistered ("load_pickle").
Languages == {"zh", "en"}
Metrics == {"toxicity", "fluency"}
ModelNames == {"model_a", "model_b"}
LoaderFuncs == {"load_sentence_transformers", "load_pickle"}
Revisions == {"v1"}
Tokenizers == {"tok_a"}

\* Iteration order of the store's items.
LangOrder == <<"zh", "en">>
MetricOrder == <<"toxicity", "sentiment", "fluency">>

\* **kwargs of the setter, over the keyword names a caller or the configuration
\* file can supply. A keyword that is absent is modelled as one passed as None:
\* the setter reads each with kwargs.pop(name, None) and ignores the rest.
KwargsOf(tokenizer_name, revision, model_revision) ==
    [k \in {"tokenizer_name", "revision", "model_revision"} |->
        CASE k = "tokenizer_name" -> tokenizer_name
          [] k = "revision" -> revision
          [] k = "model_revision" -> model_revision]

Kwargs ==
    {KwargsOf(None, None, None), KwargsOf("tok_a", None, None),
     KwargsOf(None, "v1", None), KwargsOf(None, None, "v1")}

\* What the hub answers: HTTP 200, HTTP 404, or no answer at all.
Responses == {"200", "404", "unreachable"}

\* The hub during one call of the setter, which validates one entry and so
\* asks about one model: the same answer whichever model is asked about.
HubStates == {[m \in ModelNames |-> r] : r \in Responses}

(* ------------------------------------------------------------------ *)
(* State                                                              *)
(* ------------------------------------------------------------------ *)

VARIABLES
    config,   \* self.config: language -> metric -> attribute -> value
    cache,    \* lru_cache of fetch_model: <<language, metric>> -> instance
    loads,    \* number of loader invocations so far
    last,     \* the last call: its arguments and how it ended
    raised,   \* history: the keys for which a fetch_model has raised so far
    remote,   \* history: what the hub answered, per model, during the last call
    fw,       \* a call of to_full_width: its arguments, its draws, its result
    pw        \* a call of pairwise_comparison: its arguments and its score

vars == <<config, cache, loads, last, raised, remote, fw, pw>>

\* The state of the manager proper.
managerVars == <<config, cache, loads, last>>

\* The value a call that raised, or that was not a fetch, returns.
NoModel == [id |-> 0, loader |-> None, kwargs |-> EmptyDict]

NoCall ==
    [op |-> "none", language |-> None, metric |-> None, exc |-> NoExc,
     result |-> NoModel, hit |-> FALSE, loaded |-> FALSE,
     model_name |-> None, loader_func |-> None,
     kwargs |-> KwargsOf(None, None, None), requests |-> <<>>]

(* ------------------------------------------------------------------ *)
(* check_model_availability                                           *)
(* ------------------------------------------------------------------ *)

\* One availability request: the model and revision of the URL asked for
\* (revision None: the URL of the model alone) and what the hub answered.
Request(model_name, revision, response) ==
    [model_name |-> model_name, revision |-> revision, response |-> response]

\* Seeded fault: `status_code == 200` weakened to "some status came back".
check_model_availability_AnyStatus(model_name, revision, hub) ==
    LET response == hub[model_name]
        request == Request(model_name, revision, response)
    IN  IF response = "unreachable"
        THEN [exc |-> RequestException, value |-> FALSE, request |-> request]
        ELSE [exc |-> NoExc, value |-> TRUE, request |-> request]

check_model_availability(model_name, revision, hub) ==
    LET response == hub[model_name]
        request == Request(model_name, revision, response)
    IN  IF response = "unreachable"
        THEN \* requests.get raises
             [exc |-> RequestException, value |-> FALSE, request |-> request]
        ELSE [exc |-> NoExc, value |-> (response = "200"), request |-> request]

(* ------------------------------------------------------------------ *)
(* validate_config                                                    *)
(* ------------------------------------------------------------------ *)

\* config.items() and lang_setting.items() flattened: the keys of the store in
\* iteration order, taken here as LangOrder then MetricOrder (the store itself
\* iterates in insertion order; the setter validates one key, for which the
\* order is immaterial).
ConfigItems(conf) ==
    LET nM == Len(MetricOrder)
        all == [i \in 1..(Len(LangOrder) * nM) |->
                    <<LangOrder[((i - 1) \div nM) + 1], MetricOrder[((i - 1) % nM) + 1]>>]
        Present(k) == k[1] \in DOMAIN conf /\ k[2] \in DOMAIN conf[k[1]]
    IN  SelectSeq(all, Present)

\* Seeded fault: the loop body without the loader test of lines 136-138.
ValidateEntry_NoLoaderCheck(model_setting, hub) ==
    IF "model_name" \notin DOMAIN model_setting THEN [exc |-> KeyError, requests |-> <<>>]
    ELSE IF "loader_func" \notin DOMAIN model_setting THEN [exc |-> KeyError, requests |-> <<>>]
    ELSE
        LET model_name == model_setting["model_name"]
            revision == DictGet(model_setting, "revision", None)
            avail == check_model_availability(model_name, revision, hub)
        IN  IF avail.exc # NoExc THEN [exc |-> avail.exc, requests |-> <<avail.request>>]
            ELSE IF ~avail.value THEN [exc |-> ValueError, requests |-> <<avail.request>>]
            ELSE [exc |-> NoExc, requests |-> <<avail.request>>]

\* The checks of one entry (the body of the inner loop): how it ends and the
\* availability request it made, if any.
ValidateEntry(model_setting, hub) ==
    IF "model_name" \notin DOMAIN model_setting THEN [exc |-> KeyError, requests |-> <<>>]
    ELSE IF "loader_func" \notin DOMAIN model_setting THEN [exc |-> KeyError, requests |-> <<>>]
    ELSE
        LET model_name == model_setting["model_name"]
            revision == DictGet(model_setting, "revision", None)
            loader_func == DictGet(model_setting, "loader_func", None)
        IN  IF loader_func \notin VALID_LOADER_FUNCTION
            THEN [exc |-> ValueError, requests |-> <<>>]
            ELSE
                LET avail == check_model_availability(model_name, revision, hub)
                IN  IF avail.exc # NoExc THEN [exc |-> avail.exc, requests |-> <<avail.request>>]
                    ELSE IF ~avail.value THEN [exc |-> ValueError, requests |-> <<avail.request>>]
                    ELSE [exc |-> NoExc, requests |-> <<avail.request>>]

RECURSIVE ValidateItems(_, _, _, _, _, _)
ValidateItems(conf, items, language, metric, hub, requests) ==
    IF items = <<>>
    THEN \* the loops end and the function falls off its end: it returns None
         [exc |-> NoExc, value |-> None, requests |-> requests]
    ELSE
        LET lang == Head(items)[1]
            metric_name == Head(items)[2]
        IN  IF (language # "all" /\ lang # language) \/ (metric # "all" /\ metric_name # metric)
            THEN ValidateItems(conf, Tail(items), language, metric, hub, requests)
            ELSE
                LET e == ValidateEntry(conf[lang][metric_name], hub)
                IN  IF e.exc # NoExc
                    THEN [exc |-> e.exc, value |-> None, requests |-> requests \o e.requests]
                    ELSE ValidateItems(conf, Tail(items), language, metric, hub,
                                       requests \o e.requests)

\* Seeded fault: validate_config that validates every entry, whatever language
\* and metric it is called with.
validate_config_Unscoped(conf, language, metric, hub) ==
    LET r == ValidateItems(conf, ConfigItems(conf), "all", "all", hub, <<>>)
    IN  [exc |-> r.exc, value |-> r.value, requests |-> r.requests, config |-> conf]

\* validate_config works on deepcopy(config): the pops of the loop never reach
\* the store it was given, which config returns as the call leaves it.
validate_config(conf, language, metric, hub) ==
    LET r == ValidateItems(conf, ConfigItems(conf), language, metric, hub, <<>>)
    IN  [exc |-> r.exc, value |-> r.value, requests |-> r.requests, config |-> conf]

(* ------------------------------------------------------------------ *)
(* fetch_model                                                        *)
(* ------------------------------------------------------------------ *)

\* loader(**config): the instance a loader builds. id tells one instance from
\* another; loader and kwargs are what it was built from.
Load(loader, kwargs, id) == [id |-> id, loader |-> loader, kwargs |-> kwargs]

\* Seeded fault: the body without the metric test of line 93, loading from
\* whatever the language node yields for the metric.
FetchBody_NoMetricCheck(conf, language, metric, id) ==
    IF language \in DOMAIN conf
    THEN [exc |-> NoExc, loaded |-> TRUE, config |-> conf,
          result |-> Load(None, DictGet(conf[language], metric, EmptyDict), id)]
    ELSE [exc |-> KeyError, result |-> NoModel, loaded |-> FALSE, config |-> conf]

\* Seeded fault: the body without the deepcopy of line 96, so that
\* pop('loader_func') removes the attribute from the store's own entry.
FetchBody_NoDeepCopy(conf, language, metric, id) ==
    IF language \in DOMAIN conf
    THEN IF metric \in DOMAIN conf[language]
         THEN LET entry == conf[language][metric]
                  loader_func == entry["loader_func"]
                  rest == DictPop(entry, "loader_func")
              IN  [exc |-> NoExc, result |-> Load(loader_func, rest, id), loaded |-> TRUE,
                   config |-> DictSet(conf, language, DictSet(conf[language], metric, rest))]
         ELSE [exc |-> KeyError, result |-> NoModel, loaded |-> FALSE, config |-> conf]
    ELSE [exc |-> KeyError, result |-> NoModel, loaded |-> FALSE, config |-> conf]

\* The body of fetch_model, run on a cache miss. It pops loader_func from a
\* deep copy of the entry and passes the rest to the loader; config is the
\* store the call leaves, which the pop on the copy does not reach.
FetchBody(conf, language, metric, id) ==
    IF language \in DOMAIN conf
    THEN IF metric \in DOMAIN conf[language]
         THEN LET copy == conf[language][metric]
                  loader_func == copy["loader_func"]
                  rest == DictPop(copy, "loader_func")
              IN  [exc |-> NoExc, result |-> Load(loader_func, rest, id), loaded |-> TRUE,
                   config |-> conf]
         ELSE [exc |-> KeyError, result |-> NoModel, loaded |-> FALSE, config |-> conf]
    ELSE [exc |-> KeyError, result |-> NoModel, loaded |-> FALSE, config |-> conf]

\* Seeded fault: fetch_model without @lru_cache.
fetch_model_Uncached(store, conf, language, metric, id) ==
    LET r == FetchBody(conf, language, metric, id)
    IN  [exc |-> r.exc, result |-> r.result, hit |-> FALSE, loaded |-> r.loaded,
         cache |-> store, config |-> r.config]

\* Seeded fault: a cache that also memoizes a call that raised, and raises again
\* on the next call with the same arguments.
fetch_model_MemoizesErrors(store, conf, language, metric, id) ==
    LET key == <<language, metric>>
    IN  IF key \in DOMAIN store
        THEN [exc |-> IF store[key] = NoModel THEN KeyError ELSE NoExc,
              result |-> store[key], hit |-> TRUE, loaded |-> FALSE,
              cache |-> store, config |-> conf]
        ELSE
            LET r == FetchBody(conf, language, metric, id)
            IN  [exc |-> r.exc, result |-> r.result, hit |-> FALSE, loaded |-> r.loaded,
                 cache |-> DictSet(store, key, r.result), config |-> r.config]

\* fetch_model behind @lru_cache: a hit returns the stored instance, a miss
\* runs the body and stores what it returns; a call that raises stores nothing.
\* The store has fewer keys than the cache's maxsize of 128: nothing is evicted.
fetch_model(store, conf, language, metric, id) ==
    LET key == <<language, metric>>
    IN  IF key \in DOMAIN store
        THEN [exc |-> NoExc, result |-> store[key], hit |-> TRUE, loaded |-> FALSE,
              cache |-> store, config |-> conf]
        ELSE
            LET r == FetchBody(conf, language, metric, id)
            IN  [exc |-> r.exc, result |-> r.result, hit |-> FALSE, loaded |-> r.loaded,
                 cache |-> IF r.exc = NoExc THEN DictSet(store, key, r.result) ELSE store,
                 config |-> r.config]

(* ------------------------------------------------------------------ *)
(* __set_model_for_metric                                             *)
(* ------------------------------------------------------------------ *)

\* Lines 165-182: the entry written into self.config before it is validated.
ApplySetting(conf, language, metric, model_name, loader_func, kwargs) ==
    LET c1 == IF language \notin DOMAIN conf THEN DictSet(conf, language, EmptyDict) ELSE conf
        c2 == IF metric \notin DOMAIN c1[language]
              THEN DictSet(c1, language, DictSet(c1[language], metric, EmptyDict))
              ELSE c1
        d0 == c2[language][metric]
        d1 == DictSet(d0, "loader_func", loader_func)
        d2 == DictSet(d1, "model_name", model_name)
        tokenizer_name == DictGet(kwargs, "tokenizer_name", None)
        d3 == IF Truthy(tokenizer_name) THEN DictSet(d2, "tokenizer_name", tokenizer_name) ELSE d2
        revision == DictGet(kwargs, "model_revision", None)
        d4 == IF Truthy(revision) THEN DictSet(d3, "revision", revision) ELSE d3
    IN  DictSet(c2, language, DictSet(c2[language], metric, d4))

\* Seeded fault: the try block without the metric test of lines 162-163.
TryBlock_NoMetricCheck(conf, language, metric, model_name, loader_func, kwargs, hub) ==
    IF language \notin VALID_LANGUAGE
    THEN [config |-> conf, exc |-> KeyError, clear |-> FALSE, requests |-> <<>>]
    ELSE
        LET applied == ApplySetting(conf, language, metric, model_name, loader_func, kwargs)
            v == validate_config(applied, language, metric, hub)
        IN  [config |-> v.config, exc |-> v.exc,
             clear |-> (v.exc = NoExc /\ Truthy(v.value)), requests |-> v.requests]

\* Seeded fault: a try block that clears the cache as soon as the entry is
\* written, before the validation that may still raise.
TryBlock_ClearsBeforeValidation(conf, language, metric, model_name, loader_func, kwargs, hub) ==
    IF language \notin VALID_LANGUAGE
    THEN [config |-> conf, exc |-> KeyError, clear |-> FALSE, requests |-> <<>>]
    ELSE IF metric \notin VALID_METRICS
    THEN [config |-> conf, exc |-> KeyError, clear |-> FALSE, requests |-> <<>>]
    ELSE
        LET applied == ApplySetting(conf, language, metric, model_name, loader_func, kwargs)
            v == validate_config(applied, language, metric, hub)
        IN  [config |-> v.config, exc |-> v.exc, clear |-> TRUE, requests |-> v.requests]

\* The try block: the store it leaves, how it ends, whether it cleared the
\* cache, and the availability requests it made.
TryBlock(conf, language, metric, model_name, loader_func, kwargs, hub) ==
    IF language \notin VALID_LANGUAGE
    THEN [config |-> conf, exc |-> KeyError, clear |-> FALSE, requests |-> <<>>]
    ELSE IF metric \notin VALID_METRICS
    THEN [config |-> conf, exc |-> KeyError, clear |-> FALSE, requests |-> <<>>]
    ELSE
        LET applied == ApplySetting(conf, language, metric, model_name, loader_func, kwargs)
            v == validate_config(applied, language, metric, hub)
        IN  [config |-> v.config, exc |-> v.exc,
             \* `if ModelManager.validate_config(...)`: cache_clear() runs when
             \* the value returned is truthy
             clear |-> (v.exc = NoExc /\ Truthy(v.value)), requests |-> v.requests]

\* Seeded fault: a handler that re-raises without restoring config_copy.
ExceptHandler_NoRollback(exc, config_copy, current) == current

\* `except (ValueError, KeyError)`: the store after the handler. Any other
\* exception passes the handler by and leaves the store as the try block left it.
ExceptHandler(exc, config_copy, current) ==
    IF exc \in {ValueError, KeyError} THEN config_copy ELSE current

set_model_for_metric(conf, language, metric, model_name, loader_func, kwargs, hub) ==
    LET config_copy == conf
        t == TryBlock(conf, language, metric, model_name, loader_func, kwargs, hub)
    IN  [config |-> ExceptHandler(t.exc, config_copy, t.config), exc |-> t.exc,
         clear |-> t.clear, requests |-> t.requests]

(* ------------------------------------------------------------------ *)
(* The manager as a state machine                                     *)
(* ------------------------------------------------------------------ *)

\* The hub before any call: it has answered nothing.
NoAnswer == [m \in ModelNames |-> None]

\* ModelManager.__init__ up to the load of the configuration file: an empty
\* store and an empty cache. The file is then loaded entry by entry with Set.
InitManager ==
    /\ config = EmptyDict
    /\ cache = EmptyDict
    /\ loads = 0
    /\ last = NoCall
    /\ raised = {}
    /\ remote = NoAnswer

\* One call of __set_model_for_metric with the given arguments, the hub
\* answering as hub does.
SetCall(language, metric, model_name, loader_func, kwargs, hub) ==
    LET r == set_model_for_metric(config, language, metric, model_name, loader_func,
                                  kwargs, hub)
    IN  /\ config' = r.config
        /\ cache' = IF r.clear THEN EmptyDict ELSE cache
        /\ loads' = loads
        /\ last' = [op |-> "set", language |-> language, metric |-> metric,
                    exc |-> r.exc, result |-> NoModel, hit |-> FALSE, loaded |-> FALSE,
                    model_name |-> model_name, loader_func |-> loader_func,
                    kwargs |-> kwargs, requests |-> r.requests]

\* One call of fetch_model with the given arguments.
FetchCall(language, metric) ==
    LET r == fetch_model(cache, config, language, metric, loads + 1)
    IN  /\ (r.loaded => loads < MaxLoads)
        /\ cache' = r.cache
        /\ loads' = IF r.loaded THEN loads + 1 ELSE loads
        /\ config' = r.config
        /\ last' = [op |-> "fetch", language |-> language, metric |-> metric,
                    exc |-> r.exc, result |-> r.result, hit |-> r.hit,
                    loaded |-> r.loaded, model_name |-> None, loader_func |-> None,
                    kwargs |-> KwargsOf(None, None, None), requests |-> <<>>]

\* One call of the static validate_config on the manager's store.
ValidateCall(language, metric, hub) ==
    LET r == validate_config(config, language, metric, hub)
    IN  /\ config' = r.config
        /\ cache' = cache
        /\ loads' = loads
        /\ last' = [op |-> "validate", language |-> language, metric |-> metric,
                    exc |-> r.exc, result |-> NoModel, hit |-> FALSE, loaded |-> FALSE,
                    model_name |-> None, loader_func |-> None,
                    kwargs |-> KwargsOf(None, None, None), requests |-> r.requests]

(* ------------------------------------------------------------------ *)
(* to_full_width (langcheck.augment.en)                               *)
(* ------------------------------------------------------------------ *)

\* Largest num_perturbations of a call.
MaxPerturbations == 2

\* random.random() and aug_char_p on a grid: a draw d of 0..Grid-1 stands for
\* the value d/Grid of [0, 1), a probability k of 0..Grid for k/Grid of [0, 1].
Grid == 2

\* Characters are code points, strings are sequences of them.
\* "a" = 97, "1" = 49, " " = 32, hiragana "a" = 12354.
Str(value) == [is_str |-> TRUE, value |-> value]
List(value) == [is_str |-> FALSE, value |-> value]

\* The instances passed: single strings, and the empty list, lists of one and
\* of two strings, one of them with an empty string in it.
StrInputs == {Str(<<97, 12354>>), Str(<<49>>)}
ListInputs ==
    {List(<<>>), List(<<<<49>>>>), List(<<<<97>>, <<32>>>>), List(<<<<>>, <<12354, 97>>>>)}

\* jaconv.h2z(char, kana=False, ascii=True, digit=True): the printable ASCII
\* characters and the digits go to their full-width forms, the space to the
\* ideographic space, and every other character stays as it is.
H2Z(char) ==
    IF char = 32 THEN 12288
    ELSE IF char \in 33..126 THEN char + 65248
    ELSE char

\* `for char in instance`: used counts the draws taken from the generator.
RECURSIVE CharLoop(_, _, _, _, _)
CharLoop(instance, aug_char_p, draws, used, perturbed_instance) ==
    IF instance = <<>>
    THEN [out |-> perturbed_instance, used |-> used]
    ELSE
        LET char == Head(instance)
            random == draws[used + 1]
        IN  IF random > aug_char_p
            THEN CharLoop(Tail(instance), aug_char_p, draws, used + 1,
                          Append(perturbed_instance, char))
            ELSE CharLoop(Tail(instance), aug_char_p, draws, used + 1,
                          Append(perturbed_instance, H2Z(char)))

\* `for _ in range(num_perturbations)`: remaining rounds of one instance.
RECURSIVE PerturbationLoop(_, _, _, _, _, _)
PerturbationLoop(instance, remaining, aug_char_p, draws, used, perturbed_instances) ==
    IF remaining <= 0
    THEN [out |-> perturbed_instances, used |-> used]
    ELSE
        LET c == CharLoop(instance, aug_char_p, draws, used, <<>>)
        IN  PerturbationLoop(instance, remaining - 1, aug_char_p, draws, c.used,
                             Append(perturbed_instances, c.out))

\* `for instance in instances`.
RECURSIVE InstanceLoop(_, _, _, _, _, _)
InstanceLoop(instances, num_perturbations, aug_char_p, draws, used, perturbed_instances) ==
    IF instances = <<>>
    THEN [out |-> perturbed_instances, used |-> used]
    ELSE
        LET q == PerturbationLoop(Head(instances), num_perturbations, aug_char_p, draws,
                                  used, perturbed_instances)
        IN  InstanceLoop(Tail(instances), num_perturbations, aug_char_p, draws, q.used, q.out)

\* A string iterated as a list: its characters, each a string of length one.
CharsOf(value) == [k \in 1..Len(value) |-> <<value[k]>>]

\* Seeded fault: to_full_width without the isinstance test of line 28, so
\* that a single string is looped over character by character.
to_full_width_NoStrWrap(instances, aug_char_p, num_perturbations, draws) ==
    LET list == IF instances.is_str THEN CharsOf(instances.value) ELSE instances.value
    IN  InstanceLoop(list, num_perturbations, aug_char_p, draws, 0, <<>>).out

to_full_width(instances, aug_char_p, num_perturbations, draws) ==
    LET list == IF instances.is_str THEN <<instances.value>> ELSE instances.value
    IN  InstanceLoop(list, num_perturbations, aug_char_p, draws, 0, <<>>).out

\* The instances of a call as a list, and the number of draws the call takes:
\* one per character and perturbation.
AsList(instances) == IF instances.is_str THEN <<instances.value>> ELSE instances.value

RECURSIVE TotalChars(_)
TotalChars(list) == IF list = <<>> THEN 0 ELSE Len(Head(list)) + TotalChars(Tail(list))

DrawsNeeded(instances, num_perturbations) ==
    TotalChars(AsList(instances)) * num_perturbations

NoFwCall ==
    [instances |-> List(<<>>), aug_char_p |-> 0, num_perturbations |-> 0,
     draws |-> <<>>, done |-> FALSE, result |-> <<>>]

\* The calls of to_full_width: the arguments, and the values the generator
\* will return during the call.
FwCalls(inputs) ==
    UNION { UNION { { [instances |-> i, aug_char_p |-> p, num_perturbations |-> n,
                       draws |-> d, done |-> FALSE, result |-> <<>>] :
                        d \in [1..DrawsNeeded(i, n) -> 0..(Grid - 1)],
                        p \in 0..Grid } :
                    n \in 0..MaxPerturbations } :
            i \in inputs }

(* ------------------------------------------------------------------ *)
(* pairwise_comparison (langcheck.metrics.ja)                         *)
(* ------------------------------------------------------------------ *)

\* What the evaluator can answer for a pair.
Verdicts == {"Response A", "Response B", "Tie"}

\* The score an answer stands for.
VerdictScore(verdict) ==
    CASE verdict = "Response A" -> "0.0"
      [] verdict = "Tie" -> "0.5"
      [] verdict = "Response B" -> "1.0"

\* Two scores of one pair, one per order, agree when they add up to 1.
ScoresConsistent(original, swapped) ==
    <<original, swapped>> \in {<<"0.0", "1.0">>, <<"0.5", "0.5">>, <<"1.0", "0.0">>}

\* Seeded fault: the score of the original order, returned without looking at
\* the swapped order.
pairwise_comparison_NoConsistency(verdict_ab, verdict_ba, sources_a, sources_b, reference_outputs) ==
    VerdictScore(verdict_ab)

\* The score of one pair: the evaluator is asked in the original order and in
\* the swapped order, and the score of the original order stands when the two
\* agree.
pairwise_comparison(verdict_ab, verdict_ba, sources_a, sources_b, reference_outputs) ==
    LET original == VerdictScore(verdict_ab)
        swapped == VerdictScore(verdict_ba)
    IN  IF ScoresConsistent(original, swapped) THEN original ELSE None

NoPwCall ==
    [verdict_ab |-> "Tie", verdict_ba |-> "Tie", sources_a |-> None, sources_b |-> None,
     reference_outputs |-> None, done |-> FALSE, score |-> None]

Supplied == {None, "text"}

PwCalls ==
    [verdict_ab : Verdicts, verdict_ba : Verdicts, sources_a : Supplied,
     sources_b : Supplied, reference_outputs : Supplied, done : {FALSE}, score : {None}]

(* ------------------------------------------------------------------ *)
(* Specifications                                                     *)
(* ------------------------------------------------------------------ *)

Init == InitManager /\ fw = NoFwCall /\ pw = NoPwCall

\* One call of __set_model_for_metric.
Set ==
    /\ \E language \in Languages, metric \in Metrics, model_name \in ModelNames,
          loader_func \in LoaderFuncs, kwargs \in Kwargs, hub \in HubStates :
            SetCall(language, metric, model_name, loader_func, kwargs, hub)
    /\ UNCHANGED <<raised, remote, fw, pw>>

\* One call of fetch_model.
Fetch ==
    /\ \E language \in Languages, metric \in Metrics : FetchCall(language, metric)
    /\ UNCHANGED <<raised, remote, fw, pw>>

\* One call of validate_config, for one key or for all of them.
Validate ==
    /\ \E language \in {"all", "zh"}, metric \in {"all", "toxicity"}, hub \in HubStates :
            ValidateCall(language, metric, hub)
    /\ UNCHANGED <<raised, remote, fw, pw>>

Next == Set \/ Fetch \/ Validate

Spec == Init /\ [][Next]_vars

\* The manager with its fetches watched: sets of the supported key with either
\* model, fetches of every key, and raised collecting the keys whose fetch
\* raised.
SetLookup ==
    /\ \E model_name \in ModelNames, hub \in HubStates :
            SetCall("zh", "toxicity", model_name, "load_sentence_transformers",
                    KwargsOf(None, None, None), hub)
    /\ UNCHANGED <<raised, remote, fw, pw>>

FetchLookup ==
    /\ \E language \in Languages, metric \in Metrics :
            /\ FetchCall(language, metric)
            /\ raised' = IF last'.exc = KeyError
                         THEN raised \cup {<<language, metric>>}
                         ELSE raised
    /\ UNCHANGED <<remote, fw, pw>>

NextLookup == SetLookup \/ FetchLookup

SpecLookup == Init /\ [][NextLookup]_vars

\* The manager with two supported keys of one language, and a hub that answers
\* for each model on its own; remote keeps the answers of the last set.
KeyMetrics == {"toxicity", "sentiment"}
HubAnswers == [ModelNames -> Responses]

SetKeys ==
    /\ \E metric \in KeyMetrics, model_name \in ModelNames, hub \in HubAnswers :
            /\ SetCall("zh", metric, model_name, "load_sentence_transformers",
                       KwargsOf(None, None, None), hub)
            /\ remote' = hub
    /\ UNCHANGED <<raised, fw, pw>>

FetchKeys ==
    /\ \E metric \in KeyMetrics : FetchCall("zh", metric)
    /\ UNCHANGED <<raised, remote, fw, pw>>

NextKeys == SetKeys \/ FetchKeys

SpecKeys == Init /\ [][NextKeys]_vars

\* to_full_width applied to each of its calls.
InitFW ==
    /\ InitManager
    /\ fw \in FwCalls(StrInputs) \/ fw \in FwCalls(ListInputs)
    /\ pw = NoPwCall

ToFullWidth ==
    /\ ~fw.done
    /\ fw' = [fw EXCEPT !.done = TRUE,
                        !.result = to_full_width(fw.instances, fw.aug_char_p,
                                                 fw.num_perturbations, fw.draws)]
    /\ UNCHANGED <<managerVars, raised, remote, pw>>

NextFW == ToFullWidth

SpecFW == InitFW /\ [][NextFW]_vars

\* pairwise_comparison applied to each of its calls.
InitPW == InitManager /\ fw = NoFwCall /\ pw \in PwCalls

PairwiseComparison ==
    /\ ~pw.done
    /\ pw' = [pw EXCEPT !.done = TRUE,
                        !.score = pairwise_comparison(pw.verdict_ab, pw.verdict_ba,
                                                      pw.sources_a, pw.sources_b,
                                                      pw.reference_outputs)]
    /\ UNCHANGED <<managerVars, raised, remote, fw>>

NextPW == PairwiseComparison

SpecPW == InitPW /\ [][NextPW]_vars

(* ------------------------------------------------------------------ *)
(* Properties                                                         *)
(* ------------------------------------------------------------------ *)

\* The store has an entry for (language, metric).
HasEntry(conf, language, metric) ==
    language \in DOMAIN conf /\ metric \in DOMAIN conf[language]

Supported(language, metric) == language \in VALID_LANGUAGE /\ metric \in VALID_METRICS

\* C1: after a set that returned, the store holds the model and loader of that
\* set under its key, and the cache holds no instance for the key, so the next
\* fetch of the key invokes the loader.
C1_SetStoresAndClearsCache ==
    (last.op = "set" /\ last.exc = NoExc) =>
        /\ HasEntry(config, last.language, last.metric)
        /\ config[last.language][last.metric]["model_name"] = last.model_name
        /\ config[last.language][last.metric]["loader_func"] = last.loader_func
        /\ <<last.language, last.metric>> \notin DOMAIN cache

\* C2: a set whose availability request got no answer from the hub raises, and
\* the store after it equals the store before it.
C2_UnreachableHubRollsBack ==
    [][(last'.op = "set" /\ \E i \in DOMAIN last'.requests :
                                last'.requests[i].response = "unreachable")
        => (last'.exc # NoExc /\ config' = config)]_vars

\* C3: an instance that fetch_model returns was built from the entry the store
\* holds for the key at the time of the fetch: its loader is the entry's
\* loader_func and its arguments are the entry's other attributes.
C3_FetchServesCurrentEntry ==
    (last.op = "fetch" /\ last.exc = NoExc) =>
        /\ HasEntry(config, last.language, last.metric)
        /\ last.result.loader = config[last.language][last.metric]["loader_func"]
        /\ last.result.kwargs = DictPop(config[last.language][last.metric], "loader_func")

\* C4: a set whose loader_func is not a key of LOADER_MAP raises (a ValueError
\* when the key is a supported one), and the store after it equals the store
\* before it, whatever the store held.
C4_BadLoaderRollsBack ==
    [][(last'.op = "set" /\ last'.loader_func \notin LOADER_MAP)
        => /\ last'.exc # NoExc
           /\ (Supported(last'.language, last'.metric) => last'.exc = ValueError)
           /\ config' = config]_vars

\* C4 witness: a set with an unregistered loader was rejected on a key that
\* already had an entry for another model.
C4_Witness ==
    /\ last.op = "set" /\ last.loader_func \notin LOADER_MAP /\ last.exc = ValueError
    /\ HasEntry(config, last.language, last.metric)
    /\ config[last.language][last.metric]["model_name"] # last.model_name

\* C5: a set whose availability request the hub answered with a status other
\* than 200 raises a ValueError, and the store after it equals the store before.
C5_MissingModelRollsBack ==
    [][(last'.op = "set" /\ \E i \in DOMAIN last'.requests :
                                last'.requests[i].response \notin {"200", "unreachable"})
        => (last'.exc = ValueError /\ config' = config)]_vars

\* C5 witness: the hub answered 404 to a set on a key that has an entry.
C5_Witness ==
    /\ last.op = "set" /\ last.exc = ValueError
    /\ last.requests # <<>> /\ last.requests[1].response = "404"
    /\ HasEntry(config, last.language, last.metric)

\* C6: a fetch_model that directly follows a fetch_model of the same key that
\* returned, returns the same instance without invoking the loader.
C6_RepeatedFetchSameInstance ==
    [][(/\ last.op = "fetch" /\ last.exc = NoExc
        /\ last'.op = "fetch"
        /\ last'.language = last.language /\ last'.metric = last.metric)
        => (last'.exc = NoExc /\ last'.result = last.result /\ loads' = loads)]_vars

\* C6 witness: a fetch was served from the cache after one loader invocation.
C6_Witness ==
    last.op = "fetch" /\ last.exc = NoExc /\ last.hit /\ ~last.loaded /\ loads = 1

\* C7: fetch_model for a language without an entry in the store, or for a metric
\* without an entry under its language, raises KeyError and invokes no loader.
C7_FetchUnknownRaises ==
    (last.op = "fetch" /\ ~HasEntry(config, last.language, last.metric)) =>
        (last.exc = KeyError /\ ~last.loaded /\ last.result = NoModel)

\* C7 witness: the language has an entry, the metric has none under it, and
\* the fetch raised.
C7_Witness ==
    /\ last.op = "fetch" /\ last.exc = KeyError
    /\ last.language \in DOMAIN config
    /\ last.metric \notin DOMAIN config[last.language]

\* C8: every entry of the store has a model_name and a loader_func, and its
\* loader_func is a key of LOADER_MAP.
C8_EntriesWellFormed ==
    \A language \in DOMAIN config : \A metric \in DOMAIN config[language] :
        /\ {"model_name", "loader_func"} \subseteq DOMAIN config[language][metric]
        /\ config[language][metric]["loader_func"] \in LOADER_MAP

\* C8 witness: the store holds an entry right after a set that failed because
\* the hub could not be reached.
C8_Witness ==
    /\ last.op = "set" /\ last.exc = RequestException
    /\ HasEntry(config, last.language, last.metric)

\* C9: a set for a language outside VALID_LANGUAGE or a metric outside
\* VALID_METRICS raises KeyError and leaves the store as it was: no node is
\* created for the key.
C9_UnsupportedKeyRejected ==
    [][(last'.op = "set" /\ ~Supported(last'.language, last'.metric))
        => (last'.exc = KeyError /\ config' = config
            /\ ~HasEntry(config', last'.language, last'.metric))]_vars

\* C9 witness: a set for an unsupported metric of a supported language was
\* rejected while the store had no node for the language.
C9_Witness ==
    /\ last.op = "set" /\ last.exc = KeyError
    /\ last.language \in VALID_LANGUAGE /\ last.metric \notin VALID_METRICS
    /\ config = EmptyDict

\* C10: a set that returned and was given revision stores that revision in the
\* entry of its key, and its availability request asked for the model at that
\* revision.
C10_RevisionStoredAndChecked ==
    (last.op = "set" /\ last.exc = NoExc /\ Truthy(last.kwargs["revision"])) =>
        /\ HasEntry(config, last.language, last.metric)
        /\ DictGet(config[last.language][last.metric], "revision", None)
              = last.kwargs["revision"]
        /\ Len(last.requests) = 1
        /\ last.requests[1].model_name = last.model_name
        /\ last.requests[1].revision = last.kwargs["revision"]

\* C11: to_full_width returns num_perturbations strings per instance, grouped by
\* instance in input order, a single string counting as a list of one; each
\* returned string has the length of its instance and each of its characters
\* is the instance's character or that character's full-width form.
C11_OutputsPerInstance ==
    fw.done =>
        LET list == IF fw.instances.is_str THEN <<fw.instances.value>> ELSE fw.instances.value
            n == fw.num_perturbations
        IN  /\ Len(fw.result) = Len(list) * n
            /\ \A i \in 1..Len(list) : \A j \in 1..n :
                 LET out == fw.result[(i - 1) * n + j]
                 IN  /\ Len(out) = Len(list[i])
                     /\ \A k \in 1..Len(out) : out[k] \in {list[i][k], H2Z(list[i][k])}

\* C11 witness: a single two-character string was perturbed twice, and the two
\* outputs differ.
C11_Witness ==
    /\ fw.done /\ fw.instances.is_str /\ Len(fw.instances.value) = 2
    /\ fw.num_perturbations = 2 /\ Len(fw.result) = 2
    /\ fw.result[1] # fw.result[2]

\* The verdict that agrees, in the swapped order, with a verdict of the
\* original order.
Mirror(verdict) ==
    CASE verdict = "Response A" -> "Response B"
      [] verdict = "Response B" -> "Response A"
      [] verdict = "Tie" -> "Tie"

\* C12: the score of a pair is None whenever the verdict of the swapped order
\* is not the mirror of the verdict of the original order, and it is 0.5 when
\* both verdicts are Tie, whichever of sources_a, sources_b and
\* reference_outputs are supplied.
C12_InconsistentIsNone ==
    pw.done =>
        /\ (pw.verdict_ba # Mirror(pw.verdict_ab)) => pw.score = None
        /\ (pw.verdict_ab = "Tie" /\ pw.verdict_ba = "Tie") => pw.score = "0.5"

\* C12 witness: the evaluator answered Response B in both orders and the score
\* is None.
C12_Witness ==
    /\ pw.done /\ pw.verdict_ab = "Response B" /\ pw.verdict_ba = "Response B"
    /\ pw.score = None

\* C13: after a set that returned and supplied neither a tokenizer_name nor a
\* revision, the entry of its key has the attributes model_name and loader_func
\* and no other.
C13_EntryIsExactlyTheSetting ==
    (/\ last.op = "set" /\ last.exc = NoExc
     /\ \A k \in DOMAIN last.kwargs : ~Truthy(last.kwargs[k])) =>
        /\ HasEntry(config, last.language, last.metric)
        /\ DOMAIN config[last.language][last.metric] = {"model_name", "loader_func"}

\* C15: a call of fetch_model or of validate_config, returning or raising,
\* leaves the store as it was.
C15_ReadsLeaveStore ==
    [][(last'.op \in {"fetch", "validate"}) => config' = config]_vars

\* C15 witness: fetch_model ran its body, popping loader_func for the loader,
\* and the entry in the store still has its loader_func.
C15_Witness ==
    /\ last.op = "fetch" /\ last.exc = NoExc /\ last.loaded
    /\ "loader_func" \notin DOMAIN last.result.kwargs
    /\ HasEntry(config, last.language, last.metric)
    /\ "loader_func" \in DOMAIN config[last.language][last.metric]

\* C18: with aug_char_p = 1.0 every character of every output is the
\* full-width form of the instance's character, and with aug_char_p = 0.0
\* every output equals its instance, whatever the generator returns.
C18_EndsOfRange ==
    fw.done =>
        LET list == IF fw.instances.is_str THEN <<fw.instances.value>> ELSE fw.instances.value
            n == fw.num_perturbations
        IN  \A i \in 1..Len(list) : \A j \in 1..n :
                LET out == fw.result[(i - 1) * n + j]
                IN  /\ fw.aug_char_p = Grid =>
                          out = [k \in 1..Len(list[i]) |-> H2Z(list[i][k])]
                    /\ fw.aug_char_p = 0 => out = list[i]

\* C14: a fetch_model for a key whose fetch raised earlier and for which the
\* store now has an entry returns a model; when the cache holds nothing for the
\* key, which is so for the first such fetch, it invokes the loader.
C14_LookupErrorNotMemoized ==
    [][(/\ last'.op = "fetch"
        /\ <<last'.language, last'.metric>> \in raised
        /\ HasEntry(config, last'.language, last'.metric))
        => /\ last'.exc = NoExc
           /\ last'.result # NoModel
           /\ (<<last'.language, last'.metric>> \notin DOMAIN cache)
                 => (last'.loaded /\ loads' = loads + 1)]_vars

\* C14 witness: the fetch of a key loaded a model although a fetch of that key
\* had raised before.
C14_Witness ==
    /\ last.op = "fetch" /\ last.exc = NoExc /\ last.loaded
    /\ <<last.language, last.metric>> \in raised

\* C16: a set that raises leaves the cache as it was, and a fetch_model that
\* follows it, for a key the cache holds, returns the cached instance without
\* invoking the loader.
C16_FailedSetKeepsCache ==
    [][/\ (last'.op = "set" /\ last'.exc # NoExc) => cache' = cache
       /\ (/\ last.op = "set" /\ last.exc # NoExc
           /\ last'.op = "fetch"
           /\ <<last'.language, last'.metric>> \in DOMAIN cache)
           => /\ last'.exc = NoExc
              /\ last'.result = cache[<<last'.language, last'.metric>>]
              /\ ~last'.loaded /\ loads' = loads]_vars

\* C16 witness: a set raised while the cache held an instance for each of the
\* two keys.
C16_Witness ==
    /\ last.op = "set" /\ last.exc # NoExc
    /\ DOMAIN cache = {<<"zh", m>> : m \in KeyMetrics}

\* C17: a set of a supported key with a registered loader makes one
\* availability request, for its own model, and how it ends is decided by the
\* hub's answer for that model alone: 200 returns, another status raises
\* ValueError, no answer raises the request's exception.
C17_ValidationScopedToKey ==
    (last.op = "set") =>
        /\ Len(last.requests) = 1
        /\ last.requests[1].model_name = last.model_name
        /\ last.exc = (CASE remote[last.model_name] = "200" -> NoExc
                         [] remote[last.model_name] = "404" -> ValueError
                         [] remote[last.model_name] = "unreachable" -> RequestException)

\* C17 witness: a set returned while the store held, under the other key, an
\* entry for a model the hub answered 404 for.
C17_Witness ==
    /\ last.op = "set" /\ last.exc = NoExc
    /\ \E m \in KeyMetrics \ {last.metric} :
          /\ HasEntry(config, "zh", m)
          /\ config["zh"][m]["model_name"] # last.model_name
          /\ remote[config["zh"][m]["model_name"]] = "404"

====
